---- MODULE Spec2Model ----
(***************************************************************************)
(* A model of the near-Earth-object database: models.py (the two record   *)
(* types), extract.py (the loaders that build the unlinked collections),  *)
(* database.py (linking, the lookups and the query generator) and         *)
(* write.py (the CSV and JSON writers).                                    *)
(*                                                                         *)
(* Python objects are referred to by their position in the list that      *)
(* holds them: NeoRef(i) is the i-th NearEarthObject of the list handed   *)
(* to NEODatabase, a close approach is referred to by its position in the *)
(* approaches list.  Python values of different types are tagged records, *)
(* so that None, "" and "None" stay three different values.               *)
(*                                                                         *)
(* The numeric and date attributes (diameter, hazardous, time, distance,  *)
(* velocity) take no part in linking, in the lookups, in the iteration of *)
(* query or in the control flow of the writers; the records of the model  *)
(* carry the designation, the name and the links.                          *)
(***************************************************************************)
EXTENDS Integers, Sequences, FiniteSets, TLC

VARIABLES
    neos,        \* the list of NearEarthObject built by load_neos, later db._neos
    approaches,  \* the list of CloseApproach built by load_approaches, later db._approaches
    neoArgs,     \* the name argument each NearEarthObject was constructed with
    pc,          \* "load" before NEODatabase(neos, approaches) ran, "ready" after
    db,          \* the three dictionaries of the NEODatabase
    streams,     \* the generators returned by query, by the name the caller binds them to
    ret,         \* the last lookup call and what it returned
    out          \* the last writer call, the file it left and how it ended

vars == <<neos, approaches, neoArgs, pc, db, streams, ret, out>>

(***************************************************************************)
(* Bounds.                                                                 *)
(***************************************************************************)
MaxNeos == 2
MaxApproaches == 2

Designations == {"433", "2020AB", "2099ZZ"}

(***************************************************************************)
(* Python values.                                                          *)
(***************************************************************************)
None == [py |-> "None"]
Str(s) == [py |-> "str", v |-> s]
NeoRef(i) == [py |-> "NearEarthObject", id |-> i]

\* bool(x) of a value that is None or a str
Truthy(x) == x # None /\ x # Str("")

\* str(x) of a value that is None or a str
PyStr(x) == IF x = None THEN Str("None") ELSE x

\* The name arguments NearEarthObject is constructed with: omitted (None),
\* the empty CSV cell, a real name.
NameArgs == {None, Str(""), Str("Eros")}

(***************************************************************************)
(* dict                                                                    *)
(***************************************************************************)
EmptyDict == <<>>
DictSet(d, k, v) == [x \in (DOMAIN d) \cup {k} |-> IF x = k THEN v ELSE d[x]]
DictGet(d, k, default) == IF k \in DOMAIN d THEN d[k] ELSE default

(***************************************************************************)
(* models.py                                                               *)
(***************************************************************************)
NearEarthObject(designation, name) ==
    [designation |-> designation,
     name        |-> IF name = Str("") THEN None ELSE PyStr(name),
     approaches  |-> <<>>]

fullname(neo) ==
    IF Truthy(neo.name)
    THEN neo.designation \o " (" \o neo.name.v \o ")"
    ELSE neo.designation

NeoSerialize(neo) ==
    [designation |-> neo.designation,
     name        |-> IF Truthy(neo.name) THEN neo.name.v ELSE ""]

CloseApproach(designation) ==
    [_designation |-> designation, neo |-> None]

(***************************************************************************)
(* database.py: NEODatabase.__init__                                       *)
(***************************************************************************)
RECURSIVE DesignationNeoLoop(_, _, _)
DesignationNeoLoop(ns, i, m) ==
    IF i > Len(ns) THEN m
    ELSE DesignationNeoLoop(ns, i + 1, DictSet(m, ns[i].designation, NeoRef(i)))

RECURSIVE NameNeoLoop(_, _, _)
NameNeoLoop(ns, i, m) ==
    IF i > Len(ns) THEN m
    ELSE NameNeoLoop(ns, i + 1, DictSet(m, ns[i].name, NeoRef(i)))

\* The grouping with the two branches of its test alike: a close approach
\* replaces the list of its designation instead of joining it.
RECURSIVE DesignationApproachesLoop_Overwrite(_, _, _)
DesignationApproachesLoop_Overwrite(as, j, m) ==
    IF j > Len(as) THEN m
    ELSE DesignationApproachesLoop_Overwrite(as, j + 1,
             DictSet(m, as[j]._designation, <<j>>))

RECURSIVE DesignationApproachesLoop(_, _, _)
DesignationApproachesLoop(as, j, m) ==
    IF j > Len(as) THEN m
    ELSE LET d == as[j]._designation IN
         DesignationApproachesLoop(as, j + 1,
             IF d \in DOMAIN m
             THEN DictSet(m, d, Append(m[d], j))
             ELSE DictSet(m, d, <<j>>))

LinkNeos(ns, amap) ==
    [i \in 1..Len(ns) |->
        [ns[i] EXCEPT !.approaches = DictGet(amap, ns[i].designation, <<>>)]]

\* The link with the loop variable neo of the pass before (the last NEO) as
\* the default of the lookup, instead of None.
LinkApproaches_LastNeo(as, dmap) ==
    [j \in 1..Len(as) |->
        [as[j] EXCEPT !.neo =
            DictGet(dmap, as[j]._designation,
                    IF Len(neos) > 0 THEN NeoRef(Len(neos)) ELSE None)]]

LinkApproaches(as, dmap) ==
    [j \in 1..Len(as) |->
        [as[j] EXCEPT !.neo = DictGet(dmap, as[j]._designation, None)]]

NoDatabase ==
    [_designation_neo_map        |-> EmptyDict,
     _name_neo_map               |-> EmptyDict,
     _designation_approaches_map |-> EmptyDict]

NoCall == [op |-> "none"]

Init ==
    /\ neos = <<>>
    /\ approaches = <<>>
    /\ neoArgs = <<>>
    /\ pc = "load"
    /\ db = NoDatabase
    /\ streams = EmptyDict
    /\ ret = NoCall
    /\ out = NoCall

(***************************************************************************)
(* extract.py: one iteration of the loop of load_neos, of load_approaches. *)
(* The designation is the primary key of the data set (models.py: the     *)
(* designation is "required, unique"), so no two rows share one.           *)
(***************************************************************************)
LoadNeo(designation, name) ==
    /\ pc = "load"
    /\ Len(neos) < MaxNeos
    /\ \A i \in 1..Len(neos) : neos[i].designation # designation
    /\ neos' = Append(neos, NearEarthObject(designation, name))
    /\ neoArgs' = Append(neoArgs, name)
    /\ UNCHANGED <<approaches, pc, db, streams, ret, out>>

LoadApproach(designation) ==
    /\ pc = "load"
    /\ Len(approaches) < MaxApproaches
    /\ approaches' = Append(approaches, CloseApproach(designation))
    /\ UNCHANGED <<neos, neoArgs, pc, db, streams, ret, out>>

Construct ==
    /\ pc = "load"
    /\ LET dmap == DesignationNeoLoop(neos, 1, EmptyDict)
           nmap == NameNeoLoop(neos, 1, EmptyDict)
           amap == DesignationApproachesLoop(approaches, 1, EmptyDict)
       IN /\ db' = [_designation_neo_map        |-> dmap,
                    _name_neo_map               |-> nmap,
                    _designation_approaches_map |-> amap]
          /\ neos' = LinkNeos(neos, amap)
          /\ approaches' = LinkApproaches(approaches, dmap)
    /\ pc' = "ready"
    /\ UNCHANGED <<neoArgs, streams, ret, out>>

Load ==
    \/ \E d \in Designations, n \in NameArgs : LoadNeo(d, n)
    \/ \E d \in Designations : LoadApproach(d)

(***************************************************************************)
(* database.py: the lookups.  A call returns a value or raises.            *)
(***************************************************************************)
Returned(v) == [raised |-> "", value |-> v]
Raised(e) == [raised |-> e, value |-> None]

\* dict.get(key, None) has no KeyError to catch: a miss is the default.
get_neo_by_designation(designation) ==
    Returned(DictGet(db._designation_neo_map, designation, None))

\* The lookup by subscript, self._name_neo_map[name]: a miss is a KeyError,
\* which the except clause turns into ValueError.
get_neo_by_name_Subscript(name) ==
    IF name \in DOMAIN db._name_neo_map
    THEN Returned(db._name_neo_map[name])
    ELSE Raised("ValueError")

get_neo_by_name(name) ==
    Returned(DictGet(db._name_neo_map, name, None))

DesignationKeys == Designations
NameKeys == NameArgs \cup {Str("None")}

GetNeoByDesignation(k) ==
    /\ pc = "ready"
    /\ ret' = [op |-> "get_neo_by_designation", key |-> Str(k),
               result |-> get_neo_by_designation(k)]
    /\ UNCHANGED <<neos, approaches, neoArgs, pc, db, streams, out>>

GetNeoByName(k) ==
    /\ pc = "ready"
    /\ ret' = [op |-> "get_neo_by_name", key |-> k,
               result |-> get_neo_by_name(k)]
    /\ UNCHANGED <<neos, approaches, neoArgs, pc, db, streams, out>>

Lookup ==
    \/ \E k \in DesignationKeys : GetNeoByDesignation(k)
    \/ \E k \in NameKeys : GetNeoByName(k)

(***************************************************************************)
(* database.py: query.  A filter is a pure predicate on close approaches;  *)
(* it is represented by the set of approaches (positions in the list) it   *)
(* accepts.                                                                *)
(***************************************************************************)
FilterA == {1, 2}
FilterB == {2, 3}
FilterLists == {<<>>, <<FilterA>>, <<FilterA, FilterB>>, <<FilterB, FilterA>>}

CallFilter(f, j) == j \in f

\* any(...) in the place of all(...)
Accepts_Any(filters, j) == \E k \in 1..Len(filters) : CallFilter(filters[k], j)

\* The verdict of the first filter alone.
Accepts_FirstOnly(filters, j) == Len(filters) = 0 \/ CallFilter(filters[1], j)

\* all([filter(approach) for filter in filters])
Accepts(filters, j) == \A k \in 1..Len(filters) : CallFilter(filters[k], j)

\* The for loop of the generator, resumed after the approach at position
\* cursor: the position of the next approach it yields, 0 when the loop ends.
RECURSIVE Advance(_, _)
Advance(filters, cursor) ==
    IF cursor + 1 > Len(approaches) THEN 0
    ELSE IF Accepts(filters, cursor + 1) THEN cursor + 1
    ELSE Advance(filters, cursor + 1)

\* Calling query runs none of its body: it returns a suspended generator.
query(filters) ==
    [filters |-> filters, cursor |-> 0, yielded |-> <<>>, done |-> FALSE]

\* A generator that resumes one close approach too far.
Resume_Skip(g) ==
    LET j == Advance(g.filters, g.cursor) IN
    IF j = 0
    THEN [g EXCEPT !.cursor = Len(approaches), !.done = TRUE]
    ELSE [g EXCEPT !.cursor = j + 1, !.yielded = Append(@, j)]

\* next(generator)
Resume(g) ==
    LET j == Advance(g.filters, g.cursor) IN
    IF j = 0
    THEN [g EXCEPT !.cursor = Len(approaches), !.done = TRUE]
    ELSE [g EXCEPT !.cursor = j, !.yielded = Append(@, j)]

\* list(generator) of a generator that is at position cursor
RECURSIVE Drain(_, _)
Drain(filters, cursor) ==
    LET j == Advance(filters, cursor) IN
    IF j = 0 THEN <<>> ELSE <<j>> \o Drain(filters, j)

\* The caller keeps two generators at a time: first = db.query(...),
\* second = db.query(...).
StreamIds == {"first", "second"}

QueryCall(id, filters) ==
    /\ pc = "ready"
    /\ id \notin DOMAIN streams
    /\ streams' = DictSet(streams, id, query(filters))
    /\ UNCHANGED <<neos, approaches, neoArgs, pc, db, ret, out>>

NextItem(id) ==
    /\ pc = "ready"
    /\ id \in DOMAIN streams
    /\ ~streams[id].done
    /\ streams' = [streams EXCEPT ![id] = Resume(streams[id])]
    /\ UNCHANGED <<neos, approaches, neoArgs, pc, db, ret, out>>

Query ==
    \/ \E id \in StreamIds, fl \in FilterLists : QueryCall(id, fl)
    \/ \E id \in StreamIds : NextItem(id)

(***************************************************************************)
(* write.py.  A file is the sequence of the rows or tokens written to it.  *)
(* result.neo.serialize() raises AttributeError when result.neo is None.   *)
(***************************************************************************)
CsvHeader == [row |-> "fieldnames"]
CsvRow(j) ==
    LET n == NeoSerialize(neos[approaches[j].neo.id]) IN
    [row |-> "result", approach |-> j, designation |-> n.designation, name |-> n.name]

RECURSIVE write_to_csv_loop(_, _, _)
write_to_csv_loop(results, k, file) ==
    IF k > Len(results) THEN [file |-> file, status |-> "returned"]
    ELSE IF approaches[results[k]].neo = None
         THEN [file |-> file, status |-> "AttributeError"]
         ELSE write_to_csv_loop(results, k + 1, Append(file, CsvRow(results[k])))

write_to_csv(results) == write_to_csv_loop(results, 1, <<CsvHeader>>)

Tok(t) == [tok |-> t]
JsonRecord(j) ==
    [tok |-> "json", approach |-> j, neo |-> NeoSerialize(neos[approaches[j].neo.id])]

RECURSIVE write_to_json_loop(_, _, _)
write_to_json_loop(results, counter, file) ==
    IF counter + 1 > Len(results)
    THEN [file |-> Append(file, Tok("]")), status |-> "returned"]
    ELSE LET j == results[counter + 1]
             opened == Append(file, IF counter = 0 THEN Tok("[") ELSE Tok(","))
         IN IF approaches[j].neo = None
            THEN [file |-> opened, status |-> "AttributeError"]
            ELSE write_to_json_loop(results, counter + 1,
                     opened \o <<JsonRecord(j), Tok("\n")>>)

write_to_json(results) == write_to_json_loop(results, 0, <<>>)

WriteToCsv(filters) ==
    /\ pc = "ready"
    /\ LET results == Drain(filters, 0)
           w == write_to_csv(results)
       IN out' = [op |-> "write_to_csv", results |-> results,
                  file |-> w.file, status |-> w.status]
    /\ UNCHANGED <<neos, approaches, neoArgs, pc, db, streams, ret>>

WriteToJson(filters) ==
    /\ pc = "ready"
    /\ LET results == Drain(filters, 0)
           w == write_to_json(results)
       IN out' = [op |-> "write_to_json", results |-> results,
                  file |-> w.file, status |-> w.status]
    /\ UNCHANGED <<neos, approaches, neoArgs, pc, db, streams, ret>>

Write ==
    \/ \E fl \in FilterLists : WriteToCsv(fl)
    \/ \E fl \in FilterLists : WriteToJson(fl)

Next ==
    \/ Load
    \/ Construct
    \/ Lookup
    \/ Write

Spec == Init /\ [][Next]_vars

\* The rows loaded before a database that is queried: every NEO is named.
LoadNamed ==
    \/ \E d \in Designations : LoadNeo(d, Str("Eros"))
    \/ \E d \in Designations : LoadApproach(d)

\* A caller that queries the database and consumes the generators.
NextQuery ==
    \/ LoadNamed
    \/ Construct
    \/ Query

SpecQuery == Init /\ [][NextQuery]_vars

\* Lookups made while the generators are being consumed.
LookupBetween ==
    \/ GetNeoByDesignation("433")
    \/ GetNeoByName(Str("Eros"))

NextInterleaved ==
    \/ LoadNamed
    \/ Construct
    \/ Query
    \/ LookupBetween

SpecInterleaved == Init /\ [][NextInterleaved]_vars

(***************************************************************************)
(* Properties.                                                             *)
(***************************************************************************)
HasNeo(designation) ==
    \E i \in 1..Len(neos) : neos[i].designation = designation

\* C1: after construction every close approach that has a neo has the one
\* whose designation is its own _designation, and a close approach whose
\* _designation no NEO carries has neo None.
C1_Linked ==
    pc = "ready" =>
        \A j \in 1..Len(approaches) :
            LET a == approaches[j] IN
            /\ a.neo # None =>
                  /\ a.neo.id \in 1..Len(neos)
                  /\ neos[a.neo.id].designation = a._designation
            /\ ~HasNeo(a._designation) => a.neo = None

C1_Witness ==
    /\ pc = "ready"
    /\ \E j, k \in 1..Len(approaches) :
          /\ approaches[j].neo # None
          /\ approaches[k].neo = None

\* The places (NEO, position in its approaches) that hold close approach j.
Holders(j) ==
    {p \in (1..Len(neos)) \X (1..Len(approaches)) :
        /\ p[2] <= Len(neos[p[1]].approaches)
        /\ neos[p[1]].approaches[p[2]] = j}

C3_NoNamelessKey ==
    (ret.op = "get_neo_by_name" /\ ret.key \in {None, Str("")})
        => ret.result = Returned(None)

\* C4: get_neo_by_designation(k) returns the NEO whose designation is k, or
\* None when there is none; get_neo_by_name(k) returns an NEO whose name is
\* k, or None; neither raises; what a call returned is what the same call
\* returns in every later state.
C4_Lookups ==
    pc = "ready" =>
        /\ \A k \in DesignationKeys :
              LET r == get_neo_by_designation(k) IN
              /\ r.raised = ""
              /\ IF HasNeo(k)
                 THEN /\ r.value # None
                      /\ r.value.id \in 1..Len(neos)
                      /\ neos[r.value.id].designation = k
                 ELSE r.value = None
        /\ \A k \in NameKeys :
              LET r == get_neo_by_name(k) IN
              /\ r.raised = ""
              /\ r.value # None =>
                    /\ r.value.id \in 1..Len(neos)
                    /\ neos[r.value.id].name = k
        /\ ret.op = "get_neo_by_designation" =>
              ret.result = get_neo_by_designation(ret.key.v)
        /\ ret.op = "get_neo_by_name" =>
              ret.result = get_neo_by_name(ret.key)

C4_Witness ==
    /\ pc = "ready"
    /\ ret.op = "get_neo_by_name"
    /\ ret.key = Str("Eros")
    /\ ret.result.value # None
    /\ get_neo_by_designation("2099ZZ").value = None
    /\ out.op = "write_to_csv"

\* C5: a generator of query([]) yields the close approaches one by one in
\* the order of the list and ends after the last one.
C5_EmptyFilters ==
    \A id \in DOMAIN streams :
        LET g == streams[id] IN
        g.filters = <<>> =>
            /\ g.yielded = [j \in 1..Len(g.yielded) |-> j]
            /\ Len(g.yielded) <= Len(approaches)
            /\ g.done => Len(g.yielded) = Len(approaches)

C5_Witness ==
    \E id \in DOMAIN streams :
        /\ streams[id].filters = <<>>
        /\ streams[id].done
        /\ Len(streams[id].yielded) >= 2

\* The elements of a set of positions, in increasing order.
RECURSIVE InOrder(_)
InOrder(S) ==
    IF S = {} THEN <<>>
    ELSE LET m == CHOOSE x \in S : \A y \in S : x <= y
         IN <<m>> \o InOrder(S \ {m})

AllFilters == SUBSET (1..Len(approaches))

\* C6: for all filters A and B, query([A, B]) and query([B, A]) yield the
\* same sequence: the close approaches both accept, in the order of the list.
C6_Commutative ==
    pc = "ready" =>
        /\ \A A, B \in AllFilters :
              LET ab == Drain(<<A, B>>, 0) IN
              /\ ab = Drain(<<B, A>>, 0)
              /\ ab = InOrder(A \cap B)
        /\ \A s, t \in DOMAIN streams :
              (/\ streams[s].done
               /\ streams[t].done
               /\ Len(streams[s].filters) = 2
               /\ streams[t].filters = <<streams[s].filters[2], streams[s].filters[1]>>)
              => streams[s].yielded = streams[t].yielded

C6_Witness ==
    /\ "first" \in DOMAIN streams
    /\ "second" \in DOMAIN streams
    /\ streams["first"].filters = <<FilterA, FilterB>>
    /\ streams["second"].filters = <<FilterB, FilterA>>
    /\ streams["first"].done
    /\ streams["second"].done
    /\ streams["first"].yielded = <<2>>

\* C7: write_to_csv and write_to_json return normally on every stream and
\* leave one record for each close approach of the stream, in its order.
Records(file) ==
    SelectSeq(file, LAMBDA t : "approach" \in DOMAIN t)

C7_Graceful ==
    out.op \in {"write_to_csv", "write_to_json"} =>
        /\ out.status = "returned"
        /\ [k \in 1..Len(Records(out.file)) |-> Records(out.file)[k].approach]
              = out.results

\* C8: an NEO constructed with the name "" or None (omitted) has its
\* designation as fullname and "" as serialized name; with a real name its
\* fullname is "<designation> (<name>)".
C8_NoName ==
    \A i \in 1..Len(neos) :
        IF neoArgs[i] \in {None, Str("")}
        THEN /\ fullname(neos[i]) = neos[i].designation
             /\ NeoSerialize(neos[i]).name = ""
        ELSE fullname(neos[i]) =
                 neos[i].designation \o " (" \o neoArgs[i].v \o ")"

\* What the generator g has yielded is the start of what it yields when it
\* is consumed alone, all of it when g has ended, and g has not gone past
\* the close approach it yielded last.
StreamAlone(g) ==
    LET alone == Drain(g.filters, 0) IN
    /\ Len(g.yielded) <= Len(alone)
    /\ g.yielded = SubSeq(alone, 1, Len(g.yielded))
    /\ g.done => g.yielded = alone
    /\ ~g.done =>
          g.cursor = IF g.yielded = <<>> THEN 0 ELSE g.yielded[Len(g.yielded)]

\* C9: once constructed, no lookup, query call or step of a generator
\* changes the collections, the links or the dictionaries; a step changes
\* one generator only, and every generator yields what it yields alone,
\* one close approach at a time.
C9_ReadOnly ==
    [][pc = "ready" =>
          /\ neos' = neos
          /\ approaches' = approaches
          /\ db' = db
          /\ \A id \in DOMAIN streams : id \in DOMAIN streams'
          /\ Cardinality({id \in DOMAIN streams : streams'[id] # streams[id]}) <= 1
          /\ \A id \in DOMAIN streams' : StreamAlone(streams'[id])]_vars

C9_Witness ==
    /\ "first" \in DOMAIN streams
    /\ "second" \in DOMAIN streams
    /\ streams["first"].filters = <<>>
    /\ streams["second"].filters = <<FilterB, FilterA>>
    /\ Len(streams["first"].yielded) = 1
    /\ ~streams["first"].done
    /\ streams["second"].yielded = <<2>>
    /\ ~streams["second"].done
    /\ ret.op = "get_neo_by_name"

\* The tokens of a file that are not whitespace.
JsonTokens(file) ==
    SelectSeq(file, LAMBDA t : t.tok # "\n")

\* C10: write_to_json leaves "[", the records of the stream with one ","
\* between two of them, and "]".
C10_Balanced ==
    out.op = "write_to_json" =>
        LET toks == JsonTokens(out.file)
            n == Len(out.results)
        IN /\ Len(toks) = IF n = 0 THEN 2 ELSE 2 * n + 1
           /\ toks[1].tok = "["
           /\ toks[Len(toks)].tok = "]"
           /\ \A k \in 1..n :
                 /\ toks[2 * k].tok = "json"
                 /\ toks[2 * k].approach = out.results[k]
                 /\ k < n => toks[2 * k + 1].tok = ","

====
